---- MODULE Spec2Model ----
(***************************************************************************)
(* A model of FormatHandler (src/handler/format.ts): the single            *)
(* cancellable request slot, the status item, the event handlers that      *)
(* decide when an on-type / on-save / explicit format is requested, and    *)
(* the continuations that apply the provider's edits.                      *)
(*                                                                         *)
(* JavaScript runs every handler to its first await without interruption,  *)
(* so each action below is one such run: an event handler up to the        *)
(* provider call it awaits, or the continuation that runs when the         *)
(* awaited promise settles.  The awaits that precede withRequestToken      *)
(* in documentFormat / documentRangeFormat (workspace.document,            *)
(* synchronizeDocument, nvim.eval, getFormatOptions) read the editor only  *)
(* and touch no field of the handler, so they are folded into the action   *)
(* that starts the request; what they read is an input of that action.     *)
(***************************************************************************)
EXTENDS Integers, Sequences, FiniteSets

VARIABLES
    requestTokenSource,  \* this.requestTokenSource: 0 (undefined/null) or the id of
                         \* the token source it refers to
    sources,             \* every CancellationTokenSource withRequestToken created,
                         \* in creation order: [cancelled, disposed]
    requests,            \* the withRequestToken call that created source id: its
                         \* arguments and its position while it runs
    requestStatusItem,   \* this.requestStatusItem: [text, isProgress, visible]
    preferences,         \* this.preferences
    lastInsert,          \* closure variable lastInsert (0: unset / null)
    leaveBufnr,          \* closure variable leaveBufnr (0: undefined)
    now,                 \* Date.now(), in ms
    returned,            \* what the last command that made no request returned
    messages,            \* number of error messages shown (window.showMessage)
    saves,               \* the will-save format requests (one local tokenSource each)
    disposables,         \* this.disposables: the subscriptions still registered
    enters,              \* the Enter handlers that have not returned
    editor               \* the lines the bracket helper reads, and what it did

vars == <<requestTokenSource, sources, requests, requestStatusItem, preferences,
          lastInsert, leaveBufnr, now, returned, messages, saves,
          disposables, enters, editor>>

----------------------------------------------------------------------------
(* Bounds of the model *)

MaxRequests == 3        \* requests made in Spec
MaxTypeRequests == 1    \* requests made in SpecType
MaxTypeNow == 302       \* the clock stops there in SpecType
MaxSaves == 2           \* saves in SpecSave
MaxSaveNow == 1600      \* the clock stops there in SpecSave

(* Program constants *)

DebounceMs == 300
SaveTimeoutMs == 1000

----------------------------------------------------------------------------
(* Inputs *)

Bufnrs == {1, 2}
Filetypes == {"ts", "vim"}

\* info.pre[info.pre.length - 1]: "" stands for undefined (empty pre text)
NoChar == ""
Chars == {"a", "_", "1", ";", "\n"}

\* What an awaited operation may settle with: a non-empty edit array, an
\* empty array, null/undefined, or a rejection with an Error.
Outcomes == {"edits", "empty", "absent", "raise"}

\* workspace.getDocument(bufnr) together with what the guards of
\* tryFormatOnType read from the collaborators for that buffer.
NoDoc == [exists |-> FALSE, attached |-> FALSE, isCommandLine |-> FALSE,
          filetype |-> "ts", session |-> FALSE, provider |-> FALSE]
DocInputs ==
    {NoDoc} \cup
    [exists : {TRUE}, attached : BOOLEAN, isCommandLine : BOOLEAN,
     filetype : Filetypes, session : BOOLEAN, provider : BOOLEAN]

charCodeAt(ch) ==
    CASE ch = "a"  -> 97
      [] ch = "_"  -> 95
      [] ch = "1"  -> 49
      [] ch = ";"  -> 59
      [] ch = "\n" -> 10
      [] OTHER     -> 0

isWord(ch) ==
    LET code == charCodeAt(ch)
    IN  IF code > 128 THEN FALSE
        ELSE \/ code = 95
             \/ (code >= 48 /\ code <= 57)
             \/ (code >= 65 /\ code <= 90)
             \/ (code >= 97 /\ code <= 122)

----------------------------------------------------------------------------
(* Preferences *)

PreferenceSet ==
    [formatOnType : BOOLEAN,
     formatOnTypeFiletypes : {{}, {"ts"}},
     formatOnSaveFiletypes : {{}, {"ts"}, {"*"}},
     formatOnInsertLeave : BOOLEAN,
     bracketEnterImprove : BOOLEAN]

----------------------------------------------------------------------------
(* The request slot, the token sources and the status item.  The operators  *)
(* below take the state they act on and return the state they leave (with   *)
(* what they return or do to the editor, where they do), so that a handler  *)
(* that runs several of them in one turn of the event loop is their         *)
(* composition.                                                             *)

Core == [requestTokenSource |-> requestTokenSource,
         sources |-> sources,
         requests |-> requests,
         requestStatusItem |-> requestStatusItem]

\* window.createStatusBarItem(0, { progress: true })
createStatusBarItem == [text |-> <<>>, isProgress |-> TRUE, visible |-> FALSE]

\* new CancellationTokenSource()
NewSource ==
    [cancelled |-> FALSE,    \* token.isCancellationRequested
     disposed |-> 0]         \* number of dispose() calls on the source

\* a withRequestToken call awaiting fn(token)
NewRequest(name, caller, ch, insertLeave) ==
    [name |-> name,               \* the name argument
     caller |-> caller,           \* the method that awaits withRequestToken
     ch |-> ch,                   \* tryFormatOnType's trigger character
     insertLeave |-> insertLeave, \* tryFormatOnType's insertLeave argument
     position |-> <<>>,           \* tryFormatOnType's position, once the edits
                                  \* are there (<<>>: no use is made of it)
     changed |-> <<>>,            \* tryFormatOnType's changed (<<>>: null)
     st |-> "pending"]            \* pending: fn(token) is not settled;
                                  \* applying: doc.applyEdits is awaited

\* a call that has returned: its arguments and locals are gone
Done ==
    [name |-> "", caller |-> "", ch |-> NoChar, insertLeave |-> FALSE,
     position |-> <<>>, changed |-> <<>>, st |-> "done"]

\* cancel with a callback that leaves the status item shown
cancelKeepsStatus(S, id) ==
    IF S.sources[id].cancelled THEN S
    ELSE [S EXCEPT !.sources[id].cancelled = TRUE]

\* tokenSource.cancel(): sets the flag once; the onCancellationRequested
\* callback (lines 157-161) fires if the token's emitter is still alive,
\* that is if the source was not disposed before.
cancel(S, id) ==
    IF S.sources[id].cancelled THEN S
    ELSE [S EXCEPT
            !.sources[id].cancelled = TRUE,
            !.requestStatusItem =
                IF S.sources[id].disposed = 0
                THEN [text |-> <<S.requests[id].name, "request canceled">>,
                      isProgress |-> FALSE,
                      visible |-> FALSE]
                ELSE @]

\* tokenSource.dispose()
dispose(S, id) ==
    [S EXCEPT !.sources[id].disposed = @ + 1]

\* lines 61-66: the handler of CursorMoved, CursorMovedI, InsertEnter,
\* TextChangedI, TextChangedP and TextChanged
cancelOnEvent(S) ==
    IF S.requestTokenSource # 0
    THEN [cancel(S, S.requestTokenSource) EXCEPT !.requestTokenSource = 0]
    ELSE S

\* withRequestToken, lines 150-167: up to the await of fn(token)
withRequestToken(S, name, caller, ch, insertLeave) ==
    LET S1 == IF S.requestTokenSource # 0
              THEN dispose(cancel(S, S.requestTokenSource), S.requestTokenSource)
              ELSE S
        id == Len(S1.sources) + 1
    IN  [requestTokenSource |-> id,
         sources |-> Append(S1.sources, NewSource),
         requests |-> Append(S1.requests, NewRequest(name, caller, ch, insertLeave)),
         requestStatusItem |-> [text |-> <<"requesting", name>>,
                                isProgress |-> TRUE,
                                visible |-> TRUE]]

\* withRequestTokenReturn without the test of line 176
withRequestTokenReturnUnchecked(S, id, outcome) ==
    LET S1 == IF S.requestTokenSource # 0
              THEN [dispose(S, S.requestTokenSource) EXCEPT !.requestTokenSource = 0]
              ELSE S
    IN  [core |-> [S1 EXCEPT !.requestStatusItem.visible = FALSE],
         res |-> IF outcome = "raise" THEN "absent" ELSE outcome,
         error |-> outcome = "raise",
         warn |-> outcome \in {"absent", "raise"}]

\* withRequestTokenReturn without the try/catch of lines 166-171: a
\* rejection ends the call there
withRequestTokenReturnUncaught(S, id, outcome) ==
    LET S1 == IF S.requestTokenSource # 0
              THEN [dispose(S, S.requestTokenSource) EXCEPT !.requestTokenSource = 0]
              ELSE S
    IN  IF outcome = "raise"
        THEN [core |-> S, res |-> "absent", error |-> FALSE, warn |-> FALSE]
        ELSE IF S1.sources[id].cancelled
        THEN [core |-> S1, res |-> "null", error |-> FALSE, warn |-> FALSE]
        ELSE [core |-> [S1 EXCEPT !.requestStatusItem.visible = FALSE],
              res |-> outcome, error |-> FALSE, warn |-> outcome = "absent"]

\* withRequestToken, lines 168-181: what runs when fn(token) settles with
\* outcome: the state it leaves, the value it returns (res), whether it
\* showed an error message (error) and whether it logged the warning of
\* line 179 (warn).
withRequestTokenReturn(S, id, outcome) ==
    LET S1 == IF S.requestTokenSource # 0
              THEN [dispose(S, S.requestTokenSource) EXCEPT !.requestTokenSource = 0]
              ELSE S
        error == outcome = "raise"
    IN  IF S1.sources[id].cancelled
        THEN [core |-> S1, res |-> "null", error |-> error, warn |-> FALSE]
        ELSE [core |-> [S1 EXCEPT !.requestStatusItem.visible = FALSE],
              res |-> IF outcome = "raise" THEN "absent" ELSE outcome,
              error |-> error,
              warn |-> outcome \in {"absent", "raise"}]

\* tryFormatOnType, lines 205-207: the caller's continuation up to the
\* await of doc.applyEdits.  position is what window.getCursorPosition()
\* gave on line 197, changed what getChangedFromEdits(position, edits)
\* returns: <<>> for null, <<d>> for the displacement d.
tryFormatOnTypeApply(S, id, res, position, changed) ==
    IF res # "edits"
    THEN [core |-> [S EXCEPT !.requests[id] = Done],
          applied |-> FALSE, ret |-> "void"]
    ELSE [core |-> [S EXCEPT !.requests[id].st = "applying",
                             !.requests[id].position = <<position>>,
                             !.requests[id].changed = changed],
          applied |-> TRUE, ret |-> "none"]

\* tryFormatOnTypeMove that moves to the position itself
tryFormatOnTypeMoveBack(S, id) ==
    LET position == S.requests[id].position[1]
        changed == S.requests[id].changed
    IN  [core |-> [S EXCEPT !.requests[id] = Done],
         moved |-> changed # <<>>,
         to |-> position]

\* tryFormatOnType, lines 208-209: after doc.applyEdits resolved; moved
\* tells whether window.moveTo is called, to with what
tryFormatOnTypeMove(S, id) ==
    LET position == S.requests[id].position[1]
        changed == S.requests[id].changed
    IN  [core |-> [S EXCEPT !.requests[id] = Done],
         moved |-> changed # <<>>,
         to |-> IF changed # <<>>
                THEN [line |-> position.line + changed[1].line,
                      character |-> position.character + changed[1].character]
                ELSE position]

\* documentFormatReturn with return true after the if
documentFormatReturnTrue(S, id, res) ==
    [core |-> [S EXCEPT !.requests[id] = Done],
     applied |-> res = "edits",
     ret |-> "true"]

\* documentFormat, lines 220-224
documentFormatReturn(S, id, res) ==
    [core |-> [S EXCEPT !.requests[id] = Done],
     applied |-> res = "edits",
     ret |-> IF res = "edits" THEN "true" ELSE "false"]

\* documentRangeFormat, lines 245-249
documentRangeFormatReturn(S, id, res) ==
    [core |-> [S EXCEPT !.requests[id] = Done],
     applied |-> res = "edits",
     ret |-> IF res = "edits" THEN "0" ELSE "-1"]

\* tryFormatOnType without the test of formatOnType on line 185
tryFormatOnTypeAlways(S, prefs, ch, doc, insertLeave) ==
    IF ch = NoChar \/ isWord(ch) THEN S
    ELSE IF doc.session THEN S
    ELSE IF ~doc.exists \/ ~doc.attached \/ doc.isCommandLine THEN S
    ELSE IF prefs.formatOnTypeFiletypes # {}
            /\ doc.filetype \notin prefs.formatOnTypeFiletypes THEN S
    ELSE IF ~doc.provider THEN S
    ELSE withRequestToken(S, "onTypeFormat ", "tryFormatOnType", ch, insertLeave)

\* tryFormatOnType, lines 185-204: the guards, and the start of the request
tryFormatOnType(S, prefs, ch, doc, insertLeave) ==
    IF ch = NoChar \/ isWord(ch) \/ ~prefs.formatOnType THEN S
    ELSE IF doc.session THEN S
    ELSE IF ~doc.exists \/ ~doc.attached \/ doc.isCommandLine THEN S
    ELSE IF prefs.formatOnTypeFiletypes # {}
            /\ doc.filetype \notin prefs.formatOnTypeFiletypes THEN S
    ELSE IF ~doc.provider THEN S
    ELSE withRequestToken(S, "onTypeFormat ", "tryFormatOnType", ch, insertLeave)

setCore(S) ==
    /\ requestTokenSource' = S.requestTokenSource
    /\ sources' = S.sources
    /\ requests' = S.requests
    /\ requestStatusItem' = S.requestStatusItem

----------------------------------------------------------------------------
(* Event handlers.  Every events.on / workspace.on... call of the           *)
(* constructor that is given this.disposables adds one subscription to it;  *)
(* a handler runs only while its subscription is registered.  The second    *)
(* CursorMoved handler (lines 128-133) is registered without                *)
(* this.disposables.                                                        *)

Subscriptions ==
    {"onDidChangeConfiguration", "onWillSaveTextDocument", "cancel", "Enter",
     "InsertCharPre", "TextChangedI", "InsertLeave"}

\* disposeAll(disposables): every subscription is disposed and the array is
\* emptied
disposeAll(ds) == {}

\* lines 252-254: dispose() on the handler whose slot, sources, requests
\* and status item are S and whose subscriptions are ds
handlerDispose(S, ds) ==
    [core |-> S, disposables |-> disposeAll(ds)]

Dispose ==
    /\ disposables' = handlerDispose(Core, disposables).disposables
    /\ UNCHANGED <<requestTokenSource, sources, requests, requestStatusItem,
                   preferences, lastInsert, leaveBufnr, now, returned, messages,
                   saves, enters, editor>>

\* lines 136-147: the snapshot read from the configuration store
loadPreferences(p) ==
    /\ "onDidChangeConfiguration" \in disposables
    /\ p \in PreferenceSet
    /\ preferences' = p
    /\ UNCHANGED <<requestTokenSource, sources, requests, requestStatusItem,
                   lastInsert, leaveBufnr, now, returned, messages, saves,
                   disposables, enters, editor>>

\* lines 107-109
InsertCharPre ==
    /\ "InsertCharPre" \in disposables
    /\ lastInsert' = now
    /\ UNCHANGED <<requestTokenSource, sources, requests, requestStatusItem,
                   preferences, leaveBufnr, now, returned, messages, saves,
                   disposables, enters, editor>>

\* textChangedI with >= for > on line 112
textChangedIStrict(S, prefs, li, t, doc, pre) ==
    LET S1 == cancelOnEvent(S)
        changedTs == t
    IN  IF li = 0 \/ changedTs - li >= DebounceMs
        THEN [core |-> S1, lastInsert |-> li]
        ELSE IF ~doc.exists \/ doc.isCommandLine \/ ~doc.attached
        THEN [core |-> S1, lastInsert |-> 0]
        ELSE IF pre = NoChar
        THEN [core |-> S1, lastInsert |-> 0]
        ELSE IF prefs.formatOnType /\ ~isWord(pre)
        THEN [core |-> tryFormatOnType(S1, prefs, pre, doc, FALSE), lastInsert |-> 0]
        ELSE [core |-> S1, lastInsert |-> 0]

\* lines 110-121, run after the cancel handler of lines 61-66, which is
\* registered first for TextChangedI.  changedTs is written and read here
\* only: it is the local t.
textChangedI(S, prefs, li, t, doc, pre) ==
    LET S1 == cancelOnEvent(S)
        changedTs == t
    IN  IF li = 0 \/ changedTs - li > DebounceMs
        THEN [core |-> S1, lastInsert |-> li]
        ELSE IF ~doc.exists \/ doc.isCommandLine \/ ~doc.attached
        THEN [core |-> S1, lastInsert |-> 0]
        ELSE IF pre = NoChar
        THEN [core |-> S1, lastInsert |-> 0]
        ELSE IF prefs.formatOnType /\ ~isWord(pre)
        THEN [core |-> tryFormatOnType(S1, prefs, pre, doc, FALSE), lastInsert |-> 0]
        ELSE [core |-> S1, lastInsert |-> 0]

TextChangedI(doc, pre) ==
    LET r == textChangedI(Core, preferences, lastInsert, now, doc, pre)
    IN  /\ "cancel" \in disposables
        /\ "TextChangedI" \in disposables
        /\ setCore(r.core)
        /\ lastInsert' = r.lastInsert
        /\ UNCHANGED <<preferences, leaveBufnr, now, returned, messages, saves,
                   disposables, enters, editor>>

\* lines 61-66 for the events that have no other handler
CancelEvent(e) ==
    /\ e \in {"CursorMovedI", "InsertEnter", "TextChangedP", "TextChanged"}
    /\ "cancel" \in disposables
    /\ setCore(cancelOnEvent(Core))
    /\ UNCHANGED <<preferences, lastInsert, leaveBufnr, now, returned, messages, saves,
                   disposables, enters, editor>>

\* lines 123-127
InsertLeave(bufnr) ==
    /\ "InsertLeave" \in disposables
    /\ leaveBufnr' = IF ~preferences.formatOnInsertLeave \/ ~preferences.formatOnType
                     THEN leaveBufnr
                     ELSE bufnr
    /\ UNCHANGED <<requestTokenSource, sources, requests, requestStatusItem,
                   preferences, lastInsert, now, returned, messages, saves,
                   disposables, enters, editor>>

\* lines 128-133
cursorMovedLeave(S, prefs, lb, bufnr, doc) ==
    IF lb # 0 /\ lb = bufnr
    THEN [core |-> tryFormatOnType(S, prefs, "\n", doc, TRUE), leaveBufnr |-> 0]
    ELSE [core |-> S, leaveBufnr |-> lb]

\* lines 128-133, run after the cancel handler of lines 61-66
cursorMoved(S, prefs, lb, bufnr, doc) ==
    cursorMovedLeave(cancelOnEvent(S), prefs, lb, bufnr, doc)

\* what a CursorMoved event runs: both handlers, or the second alone once
\* the first is unsubscribed
cursorMovedEvent(S, ds, prefs, lb, bufnr, doc) ==
    IF "cancel" \in ds
    THEN cursorMoved(S, prefs, lb, bufnr, doc)
    ELSE cursorMovedLeave(S, prefs, lb, bufnr, doc)

CursorMoved(bufnr, doc) ==
    LET r == cursorMovedEvent(Core, disposables, preferences, leaveBufnr, bufnr, doc)
    IN  /\ setCore(r.core)
        /\ leaveBufnr' = r.leaveBufnr
        /\ UNCHANGED <<preferences, lastInsert, now, returned, messages, saves,
                   disposables, enters, editor>>

\* lines 67-69: the Enter handler up to its await of tryFormatOnType.  The
\* handler goes on (lines 70-102) when that call has returned; req is the
\* request the call made (0: none, it returned at once).  With
\* bracketEnterImprove read as false on line 68 nothing is left to do after
\* the await, and the handler is not kept.
Enter(bufnr, doc) ==
    LET S == tryFormatOnType(Core, preferences, "\n", doc, FALSE)
        req == IF Len(S.sources) > Len(sources) THEN Len(S.sources) ELSE 0
    IN  /\ "Enter" \in disposables
        /\ setCore(S)
        /\ enters' = IF preferences.bracketEnterImprove
                     THEN Append(enters, [bufnr |-> bufnr, req |-> req])
                     ELSE enters
        /\ UNCHANGED <<preferences, lastInsert, leaveBufnr, now, returned, messages,
                       saves, disposables, editor>>

----------------------------------------------------------------------------
(* The bracket helper of the Enter handler, lines 70-102.  Text is a        *)
(* sequence of one-character strings.                                       *)

\* lines 15-21
pairs ==
    {<<"<", ">">>, <<">", "<">>, <<"{", "}">>, <<"[", "]">>, <<"(", ")">>}

pairsHas(c) == \E pr \in pairs : pr[1] = c
pairsGet(c) == (CHOOSE pr \in pairs : pr[1] = c)[2]

PositionCreate(l, c) == [line |-> l, character |-> c]
RangeCreate(a, b) == [start |-> a, end |-> b]

\* what the regular expression class \s matches among the characters used
IsSpace(c) == c \in {" ", "\t"}

\* s.match(/^\s*/)[0]
RECURSIVE matchIndent(_)
matchIndent(s) ==
    IF s = <<>> \/ ~IsSpace(Head(s)) THEN <<>>
    ELSE <<Head(s)>> \o matchIndent(Tail(s))

RECURSIVE trimEnd(_)
trimEnd(s) ==
    IF s = <<>> \/ ~IsSpace(s[Len(s)]) THEN s
    ELSE trimEnd(SubSeq(s, 1, Len(s) - 1))

\* s.trim()
trim(s) == trimEnd(SubSeq(s, Len(matchIndent(s)) + 1, Len(s)))

\* ' '.repeat(n)
repeat(c, n) == [i \in 1..n |-> c]

\* bracketEdits that moves the cursor to column newText.length
bracketEditsPastEnd(line, pre, curr, ft, insertSpaces, tabSize) ==
    LET space == IF insertSpaces THEN repeat(" ", tabSize) ELSE <<"\t">>
        preIndent == matchIndent(pre)
        currIndent == matchIndent(curr)
        pos == PositionCreate(line - 1, Len(pre))
        indentEdits ==
            IF preIndent # currIndent
            THEN <<[range |-> RangeCreate(PositionCreate(line, 0),
                                          PositionCreate(line, Len(currIndent))),
                    newText |-> IF ft = "vim"
                                THEN <<" ", " ", "\\", " ">> \o preIndent
                                ELSE preIndent]>>
            ELSE IF ft = "vim"
            THEN <<[range |-> RangeCreate(PositionCreate(line, Len(currIndent)),
                                          PositionCreate(line, Len(currIndent))),
                    newText |-> <<" ", " ", "\\", " ">>]>>
            ELSE <<>>
        newText == IF ft = "vim"
                   THEN <<"\n">> \o preIndent \o space \o <<"\\", " ">>
                   ELSE <<"\n">> \o preIndent \o space
    IN  [edits |-> Append(indentEdits, [range |-> RangeCreate(pos, pos),
                                        newText |-> newText]),
         to |-> PositionCreate(line, Len(newText))]

\* the batch passed to doc.applyEdits and the position passed to
\* window.moveTo by lines 80-99, for the lines pre and curr of a document
\* of filetype ft, with the format options insertSpaces and tabSize
bracketEdits(line, pre, curr, ft, insertSpaces, tabSize) ==
    LET space == IF insertSpaces THEN repeat(" ", tabSize) ELSE <<"\t">>
        preIndent == matchIndent(pre)
        currIndent == matchIndent(curr)
        pos == PositionCreate(line - 1, Len(pre))
        indentEdits ==
            IF preIndent # currIndent
            THEN <<[range |-> RangeCreate(PositionCreate(line, 0),
                                          PositionCreate(line, Len(currIndent))),
                    newText |-> IF ft = "vim"
                                THEN <<" ", " ", "\\", " ">> \o preIndent
                                ELSE preIndent]>>
            ELSE IF ft = "vim"
            THEN <<[range |-> RangeCreate(PositionCreate(line, Len(currIndent)),
                                          PositionCreate(line, Len(currIndent))),
                    newText |-> <<" ", " ", "\\", " ">>]>>
            ELSE <<>>
        newText == IF ft = "vim"
                   THEN <<"\n">> \o preIndent \o space \o <<"\\", " ">>
                   ELSE <<"\n">> \o preIndent \o space
    IN  [edits |-> Append(indentEdits, [range |-> RangeCreate(pos, pos),
                                        newText |-> newText]),
         to |-> PositionCreate(line, Len(newText) - 1)]

\* bracketMatch without the comparison of line 79
bracketMatchAnyNext(pre, curr) ==
    LET prevChar == IF pre = <<>> THEN "" ELSE pre[Len(pre)]
        nextChar == IF trim(curr) = <<>> THEN "" ELSE trim(curr)[1]
    IN  /\ prevChar # "" /\ pairsHas(prevChar)
        /\ nextChar # ""

\* lines 76-79: the helper acts on these lines
bracketMatch(pre, curr) ==
    LET prevChar == IF pre = <<>> THEN "" ELSE pre[Len(pre)]
        nextChar == IF trim(curr) = <<>> THEN "" ELSE trim(curr)[1]
    IN  /\ prevChar # "" /\ pairsHas(prevChar)
        /\ nextChar # "" /\ pairsGet(prevChar) = nextChar

\* lines 71-99 on what the editor holds: the batches applied (none or one)
\* and the cursor move made
bracketEnter(ed) ==
    IF ~ed.exists \/ ~bracketMatch(ed.pre, ed.curr)
    THEN [applied |-> <<>>, moved |-> FALSE, to |-> PositionCreate(0, 0)]
    ELSE LET b == bracketEdits(ed.line, ed.pre, ed.curr, ed.filetype,
                               ed.insertSpaces, ed.tabSize)
         IN  [applied |-> <<b.edits>>, moved |-> TRUE, to |-> b.to]

\* the editor before the helper ran: the current line number less one, the
\* document of the buffer, the two lines and the format options
Editor(exists, ft, line, pre, curr, insertSpaces, tabSize) ==
    [exists |-> exists, filetype |-> ft, line |-> line, pre |-> pre, curr |-> curr,
     insertSpaces |-> insertSpaces, tabSize |-> tabSize,
     applied |-> <<>>, moved |-> FALSE, to |-> PositionCreate(0, 0), ran |-> FALSE]

NoEditor == Editor(FALSE, "ts", 1, <<>>, <<>>, TRUE, 2)

\* lines 70-102: the Enter handler i goes on after tryFormatOnType has
\* returned.  Its awaits (nvim.call, getFormatOptions, applyEdits, moveTo)
\* read and write the editor only, so it is one step.
BracketEnter(i) ==
    LET r == bracketEnter(editor)
    IN  /\ i \in DOMAIN enters
        /\ IF enters[i].req = 0 THEN TRUE
           ELSE requests[enters[i].req].st = "done"
        /\ enters' = SubSeq(enters, 1, i - 1) \o SubSeq(enters, i + 1, Len(enters))
        /\ editor' = [editor EXCEPT !.applied = r.applied, !.moved = r.moved,
                                    !.to = r.to, !.ran = TRUE]
        /\ UNCHANGED <<requestTokenSource, sources, requests, requestStatusItem,
                       preferences, lastInsert, leaveBufnr, now, returned, messages,
                       saves, disposables>>

----------------------------------------------------------------------------
(* Commands.  ret is what the call returns at once ("none" when it goes on  *)
(* to await withRequestToken).                                              *)

\* lines 212-219
documentFormat(S, doc) ==
    IF ~doc.exists \/ ~doc.attached
    THEN [core |-> S, ret |-> "false"]
    ELSE [core |-> withRequestToken(S, "format", "documentFormat", NoChar, FALSE),
          ret |-> "none"]

DocumentFormat(doc) ==
    LET r == documentFormat(Core, doc)
    IN  /\ setCore(r.core)
        /\ returned' = IF r.ret = "none" THEN returned ELSE r.ret
        /\ UNCHANGED <<preferences, lastInsert, leaveBufnr, now, messages, saves,
                   disposables, enters, editor>>

\* What documentRangeFormat reads from the editor: mode is its argument (""
\* when absent), selected tells whether workspace.getSelectedRange gave a
\* range, count and edmode are v:count and mode() as nvim.eval returns them.
\* (selected is read only with a mode, count and edmode only without)
RangeInputs ==
    {in \in [mode : {"", "v"}, selected : BOOLEAN, count : {0, 1},
             edmode : {"n", "i", "R"}] :
        /\ in.mode = "" => ~in.selected
        /\ in.mode # "" => (in.count = 0 /\ in.edmode = "n")}

\* documentRangeFormat without the test of count on line 238
documentRangeFormatAnyCount(S, doc, in) ==
    IF ~doc.exists \/ ~doc.attached
    THEN [core |-> S, ret |-> "-1"]
    ELSE IF in.mode # "" /\ ~in.selected
    THEN [core |-> S, ret |-> "-1"]
    ELSE IF in.mode = "" /\ (in.edmode = "i" \/ in.edmode = "R")
    THEN [core |-> S, ret |-> "-1"]
    ELSE [core |-> withRequestToken(S, "format", "documentRangeFormat", NoChar, FALSE),
          ret |-> "none"]

\* lines 227-244
documentRangeFormat(S, doc, in) ==
    IF ~doc.exists \/ ~doc.attached
    THEN [core |-> S, ret |-> "-1"]
    ELSE IF in.mode # "" /\ ~in.selected
    THEN [core |-> S, ret |-> "-1"]
    ELSE IF in.mode = "" /\ (in.count = 0 \/ in.edmode = "i" \/ in.edmode = "R")
    THEN [core |-> S, ret |-> "-1"]
    ELSE [core |-> withRequestToken(S, "format", "documentRangeFormat", NoChar, FALSE),
          ret |-> "none"]

DocumentRangeFormat(doc, in) ==
    LET r == documentRangeFormat(Core, doc, in)
    IN  /\ setCore(r.core)
        /\ returned' = IF r.ret = "none" THEN returned ELSE r.ret
        /\ UNCHANGED <<preferences, lastInsert, leaveBufnr, now, messages, saves,
                   disposables, enters, editor>>

----------------------------------------------------------------------------
(* Continuations *)

\* The operation of request id settles: for tryFormatOnType the function of
\* lines 196-204 (on a blank line in insert-leave mode it returns undefined
\* without asking the provider), otherwise the provider call.  Then
\* withRequestToken resumes and returns to its caller, which goes on in the
\* same run of microtasks.  A rejection carries an Error object.
\*   asked: the provider was invoked; error: an error message was shown;
\*   warn: the warning of line 179 was logged;
\*   res: what withRequestToken returned; applied: doc.applyEdits was
\*   called; ret: what the caller returned ("none": it awaits applyEdits).
settle(S, id, outcome, position, changed, blank) ==
    LET skip == S.requests[id].insertLeave /\ blank
        w == withRequestTokenReturn(S, id, IF skip THEN "absent" ELSE outcome)
        caller == S.requests[id].caller
        c == CASE caller = "tryFormatOnType" -> tryFormatOnTypeApply(w.core, id, w.res, position, changed)
               [] caller = "documentFormat" -> documentFormatReturn(w.core, id, w.res)
               [] OTHER -> documentRangeFormatReturn(w.core, id, w.res)
    IN  [core |-> c.core, asked |-> ~skip, error |-> w.error, warn |-> w.warn,
         res |-> w.res, applied |-> c.applied, ret |-> c.ret]

Settle(id, outcome, position, changed, blank) ==
    LET r == settle(Core, id, outcome, position, changed, blank)
    IN  /\ id \in DOMAIN requests
        /\ requests[id].st = "pending"
        /\ setCore(r.core)
        /\ messages' = IF r.error THEN messages + 1 ELSE messages
        /\ UNCHANGED <<preferences, lastInsert, leaveBufnr, now, returned, saves,
                   disposables, enters, editor>>

\* lines 207-209: doc.applyEdits resolved
ApplyDone(id) ==
    /\ id \in DOMAIN requests
    /\ requests[id].st = "applying"
    /\ setCore(tryFormatOnTypeMove(Core, id).core)
    /\ UNCHANGED <<preferences, lastInsert, leaveBufnr, now, returned, messages, saves,
                   disposables, enters, editor>>

----------------------------------------------------------------------------
(* Format on save, lines 40-60 *)

\* time passes
Tick(d) ==
    /\ now' = now + d
    /\ UNCHANGED <<requestTokenSource, sources, requests, requestStatusItem,
                   preferences, lastInsert, leaveBufnr, returned, messages, saves,
                   disposables, enters, editor>>

NewSave(st) ==
    [st |-> st,              \* options: getFormatOptions awaited; pending: the
                             \* provider awaited; done; failed: the provider raised
     start |-> 0,            \* when setTimeout was called
     timer |-> FALSE,        \* the timer is armed
     cancelled |-> FALSE,    \* tokenSource.token.isCancellationRequested
     late |-> FALSE,         \* the provider settled SaveTimeoutMs or more after start
     result |-> "none"]      \* what willSaveWaitUntil() resolved with

\* lines 41-48 and 58
onWillSaveTextDocument(svs, prefs, languageId, hasFormatProvider) ==
    LET filetypes == prefs.formatOnSaveFiletypes
    IN  IF languageId \in filetypes \/ "*" \in filetypes
        THEN IF ~hasFormatProvider
             THEN Append(svs, [NewSave("done") EXCEPT !.result = "absent"])
             ELSE Append(svs, NewSave("options"))
        ELSE svs

WillSave(languageId, hasFormatProvider) ==
    /\ "onWillSaveTextDocument" \in disposables
    /\ saves' = onWillSaveTextDocument(saves, preferences, languageId, hasFormatProvider)
    /\ UNCHANGED <<requestTokenSource, sources, requests, requestStatusItem,
                   preferences, lastInsert, leaveBufnr, now, returned, messages,
                   disposables, enters, editor>>

\* lines 49-54: getFormatOptions resolved; the token source and the timer
\* are created and the provider is called
SaveRequest(i) ==
    /\ i \in DOMAIN saves
    /\ saves[i].st = "options"
    /\ saves' = [saves EXCEPT ![i].st = "pending", ![i].start = now, ![i].timer = TRUE]
    /\ UNCHANGED <<requestTokenSource, sources, requests, requestStatusItem,
                   preferences, lastInsert, leaveBufnr, now, returned, messages,
                   disposables, enters, editor>>

\* setTimeout(..., 1000): the callback is due
TimerDue(sv, t) == sv.timer /\ t - sv.start >= SaveTimeoutMs

\* lines 51-53: the timer fires
SaveTimeout(i) ==
    /\ i \in DOMAIN saves
    /\ TimerDue(saves[i], now)
    /\ saves' = [saves EXCEPT ![i].timer = FALSE, ![i].cancelled = TRUE]
    /\ UNCHANGED <<requestTokenSource, sources, requests, requestStatusItem,
                   preferences, lastInsert, leaveBufnr, now, returned, messages,
                   disposables, enters, editor>>

\* lines 54-56: the provider settled at time t
saveSettle(sv, t, outcome) ==
    IF outcome = "raise"
    THEN [sv EXCEPT !.st = "failed", !.late = t - sv.start >= SaveTimeoutMs]
    ELSE [sv EXCEPT !.st = "done", !.timer = FALSE, !.result = outcome,
                    !.late = t - sv.start >= SaveTimeoutMs]

\* A timer that is due runs before the provider's answer is handled.
SaveSettle(i, outcome) ==
    /\ i \in DOMAIN saves
    /\ saves[i].st = "pending"
    /\ ~TimerDue(saves[i], now)
    /\ saves' = [saves EXCEPT ![i] = saveSettle(saves[i], now, outcome)]
    /\ UNCHANGED <<requestTokenSource, sources, requests, requestStatusItem,
                   preferences, lastInsert, leaveBufnr, now, returned, messages,
                   disposables, enters, editor>>

----------------------------------------------------------------------------
(* Specifications *)

\* lines 36-38, 105-106 and 122: the state after construction
Constructed ==
    /\ requestTokenSource = 0
    /\ sources = <<>>
    /\ requests = <<>>
    /\ requestStatusItem = createStatusBarItem
    /\ lastInsert = 0
    /\ leaveBufnr = 0
    /\ now = 1
    /\ returned = "none"
    /\ messages = 0
    /\ saves = <<>>
    /\ disposables = Subscriptions
    /\ enters = <<>>

\* One document for each way through the guards of tryFormatOnType
SomeDocs ==
    LET ok == [exists |-> TRUE, attached |-> TRUE, isCommandLine |-> FALSE,
               filetype |-> "ts", session |-> FALSE, provider |-> TRUE]
    IN  {NoDoc, ok,
         [ok EXCEPT !.attached = FALSE],
         [ok EXCEPT !.isCommandLine = TRUE],
         [ok EXCEPT !.filetype = "vim"],
         [ok EXCEPT !.session = TRUE],
         [ok EXCEPT !.provider = FALSE]}

\* The documents a command tells apart
CommandDocs == {d \in SomeDocs : ~d.isCommandLine /\ ~d.session /\ d.filetype = "ts"
                                 /\ d.provider = d.attached}

\* The cursor positions and the displacements getChangedFromEdits computes
Positions == [line : {0, 1}, character : {0, 1}]
Changes == {<<>>} \cup {<<d>> : d \in [line : {0, 1}, character : {-1, 0, 2}]}

\* One position, and a displacement or none
AllInputs ==
    [outcome : Outcomes, position : {[line |-> 0, character |-> 1]},
     changed : {<<>>, <<[line |-> 1, character |-> -1]>>}, blank : BOOLEAN]

\* The inputs of a continuation that its request reads
SettleInputs(id) ==
    {in \in AllInputs :
        /\ in.changed # <<>> =>
              (in.outcome = "edits" /\ requests[id].caller = "tryFormatOnType")
        /\ in.blank => requests[id].insertLeave}

\* The request lifecycle: the commands, Enter, the cancelling events and
\* the continuations in any order, with no more than MaxRequests requests.
Init ==
    /\ Constructed
    /\ preferences \in {p \in PreferenceSet :
                           /\ p.formatOnTypeFiletypes = {}
                           /\ p.formatOnSaveFiletypes = {}
                           /\ ~p.formatOnInsertLeave
                           /\ ~p.bracketEnterImprove}
    /\ editor = NoEditor

Next ==
    \/ \E doc \in SomeDocs, pre \in {";"} : TextChangedI(doc, pre)
    \/ \E e \in {"CursorMovedI", "InsertEnter", "TextChangedP", "TextChanged"} : CancelEvent(e)
    \/ \E bufnr \in Bufnrs, doc \in SomeDocs : CursorMoved(bufnr, doc)
    \/ \E bufnr \in Bufnrs, doc \in SomeDocs :
          Enter(bufnr, doc) /\ Len(sources') <= MaxRequests
    \/ \E doc \in CommandDocs :
          DocumentFormat(doc) /\ Len(sources') <= MaxRequests
    \/ \E doc \in CommandDocs, in \in RangeInputs :
          DocumentRangeFormat(doc, in) /\ Len(sources') <= MaxRequests
    \/ \E id \in DOMAIN requests : \E in \in SettleInputs(id) :
          Settle(id, in.outcome, in.position, in.changed, in.blank)
    \/ \E id \in DOMAIN requests : ApplyDone(id)

Spec == Init /\ [][Next]_vars

----------------------------------------------------------------------------
(* The request lifecycle *)

InFlight(id) == requests[id].st = "pending"

\* C1: at most one request is in progress (started, not returned, token not
\* cancelled) at any instant, and once a later request has started every
\* earlier request that is still pending has its token cancelled.
C1_AtMostOneInProgress ==
    /\ Cardinality({id \in DOMAIN requests : InFlight(id) /\ ~sources[id].cancelled}) <= 1
    /\ \A i, j \in DOMAIN requests :
          (i < j /\ InFlight(i)) => sources[i].cancelled

\* C2: when the token of a request is cancelled before its operation
\* settles, then whatever the operation settles with, withRequestToken
\* returns null, the caller applies no edit and the call ends there, so
\* that no cursor move follows.
C2_CancelledAppliesNothing ==
    \A id \in DOMAIN requests : \A in \in AllInputs :
        (InFlight(id) /\ sources[id].cancelled) =>
            LET r == settle(Core, id, in.outcome, in.position, in.changed, in.blank)
            IN  /\ r.res = "null"
                /\ ~r.applied
                /\ r.core.requests[id].st = "done"

\* a request that was cancelled while in flight has returned
C2_Witness ==
    \E id \in DOMAIN requests : sources[id].cancelled /\ requests[id].st = "done"

\* C3: a cancelling editor event delivered while a request is in flight
\* cancels the token of that request.
C3_EventCancelsInFlight ==
    \A id \in DOMAIN requests :
        InFlight(id) => cancelOnEvent(Core).sources[id].cancelled

\* C4: the token source of every request that has returned was disposed
\* exactly once.  (The source of a returned request is not in the slot any
\* more, so nothing can dispose it later.)
C4_DisposedExactlyOnce ==
    \A id \in DOMAIN requests :
        (requests[id].st = "done" /\ requestTokenSource # id) => sources[id].disposed = 1

\* C5: when no withRequestToken call is in flight the status item is hidden.
C5_StatusHiddenWhenIdle ==
    (\A id \in DOMAIN requests : ~InFlight(id)) => ~requestStatusItem.visible

\* requests were made, one was cancelled, and all have returned
C5_Witness ==
    /\ \E id \in DOMAIN requests : sources[id].cancelled
    /\ \A id \in DOMAIN requests : requests[id].st = "done"
    /\ ~requestStatusItem.visible

\* C9: documentRangeFormat returns -1 and leaves the slot, the sources and
\* the status item as they are (no request is made, so no provider is asked)
\* when no mode is given and the count is 0 or the editor is in insert or
\* replace mode, when there is no attached document, and when a mode is
\* given but no range is selected.
C9_RangeRejected ==
    \A doc \in DocInputs, in \in RangeInputs :
        (\/ ~doc.exists \/ ~doc.attached
         \/ (in.mode = "" /\ (in.count = 0 \/ in.edmode \in {"i", "R"}))
         \/ (in.mode # "" /\ ~in.selected)) =>
            LET r == documentRangeFormat(Core, doc, in)
            IN  r.ret = "-1" /\ r.core = Core

\* a range format was rejected and a request is in the slot
C9_Witness ==
    returned = "-1" /\ requestTokenSource # 0 /\ requestStatusItem.visible

\* C10: when the operation of a request raises, an error message is shown,
\* withRequestToken returns no result, the caller applies nothing and
\* returns its failure value, and the slot is empty.
C10_FailureIsCaught ==
    \A id \in DOMAIN requests : \A in \in AllInputs :
        (InFlight(id) /\ in.outcome = "raise"
                      /\ ~(requests[id].insertLeave /\ in.blank)) =>
            LET r == settle(Core, id, in.outcome, in.position, in.changed, in.blank)
            IN  /\ r.error
                /\ r.res \in {"null", "absent"}
                /\ ~r.applied
                /\ r.ret = CASE requests[id].caller = "documentFormat" -> "false"
                             [] requests[id].caller = "documentRangeFormat" -> "-1"
                             [] OTHER -> "void"
                /\ r.core.requests[id].st = "done"
                /\ r.core.requestTokenSource = 0

\* an operation raised, and a request made afterwards is in the slot
C10_Witness ==
    /\ messages > 0
    /\ requestTokenSource # 0
    /\ \A id \in DOMAIN requests : id # requestTokenSource => requests[id].st = "done"

\* C16: when the operation of a request settles while the slot holds the
\* source of another request, the continuation leaves that source in the
\* slot and does not dispose it.
C16_ReleasesOwnHandle ==
    \A id \in DOMAIN requests : \A in \in AllInputs :
        (InFlight(id) /\ requestTokenSource # 0 /\ requestTokenSource # id) =>
            LET r == settle(Core, id, in.outcome, in.position, in.changed, in.blank)
            IN  /\ r.core.requestTokenSource = requestTokenSource
                /\ r.core.sources[requestTokenSource].disposed
                      = sources[requestTokenSource].disposed

\* C17: the continuation of a request whose token is cancelled applies no
\* edit, shows no error message whatever its operation settled with, leaves
\* the status item as it is, and leaves the slot and the sources as they are
\* when the slot holds another request.
C17_CancelledSuppresses ==
    \A id \in DOMAIN requests : \A in \in AllInputs :
        (InFlight(id) /\ sources[id].cancelled) =>
            LET r == settle(Core, id, in.outcome, in.position, in.changed, in.blank)
            IN  /\ ~r.applied
                /\ ~r.error
                /\ r.core.requestStatusItem = requestStatusItem
                /\ requestTokenSource # id =>
                      /\ r.core.requestTokenSource = requestTokenSource
                      /\ r.core.sources = sources

\* C12: documentFormat returns true exactly when the call applied edits and
\* false otherwise, documentRangeFormat 0 exactly when it applied edits and
\* -1 otherwise: for every request of theirs in flight, cancelled or not,
\* and every outcome of its operation, and for the calls that make no
\* request (no attached document, no range).
C12_ReturnTellsApplied ==
    /\ \A id \in DOMAIN requests : \A in \in AllInputs :
          (InFlight(id) /\ requests[id].caller \in {"documentFormat", "documentRangeFormat"}) =>
              LET r == settle(Core, id, in.outcome, in.position, in.changed, in.blank)
              IN  IF requests[id].caller = "documentFormat"
                  THEN r.ret = (IF r.applied THEN "true" ELSE "false")
                  ELSE r.ret = (IF r.applied THEN "0" ELSE "-1")
    /\ \A doc \in DocInputs :
          LET r == documentFormat(Core, doc)
          IN  r.ret \in {"false", "none"}
              /\ (r.ret = "false" => r.core = Core)
              /\ (r.ret = "none" => Len(r.core.sources) = Len(sources) + 1)
    /\ \A doc \in DocInputs, in \in RangeInputs :
          LET r == documentRangeFormat(Core, doc, in)
          IN  r.ret \in {"-1", "none"}
              /\ (r.ret = "-1" => r.core = Core)
              /\ (r.ret = "none" => Len(r.core.sources) = Len(sources) + 1)

\* a documentRangeFormat request is in flight, and a documentFormat request
\* that it superseded is in flight with its token cancelled
C12_Witness ==
    \E i, j \in DOMAIN requests :
        /\ InFlight(i) /\ requests[i].caller = "documentFormat" /\ sources[i].cancelled
        /\ InFlight(j) /\ requests[j].caller = "documentRangeFormat"
        /\ ~sources[j].cancelled

----------------------------------------------------------------------------
(* Format on type: the keystroke, the text change and the insert-leave      *)
(* events under every configuration of the on-type preferences, with a      *)
(* clock.                                                                   *)

TypePreferences ==
    {p \in PreferenceSet : p.formatOnSaveFiletypes = {} /\ ~p.bracketEnterImprove}

InitType == Constructed /\ preferences \in TypePreferences /\ editor = NoEditor

NextType ==
    \/ \E p \in TypePreferences : loadPreferences(p)
    \/ \E d \in {DebounceMs, DebounceMs + 1} : now + d <= MaxTypeNow /\ Tick(d)
    \/ InsertCharPre
    \/ \E doc \in SomeDocs, pre \in Chars \cup {NoChar} :
          TextChangedI(doc, pre) /\ Len(sources') <= MaxTypeRequests
    \/ \E e \in {"CursorMovedI", "InsertEnter", "TextChangedP", "TextChanged"} : CancelEvent(e)
    \/ \E bufnr \in Bufnrs : InsertLeave(bufnr)
    \/ \E bufnr \in Bufnrs, doc \in SomeDocs :
          CursorMoved(bufnr, doc) /\ Len(sources') <= MaxTypeRequests
    \/ \E bufnr \in Bufnrs, doc \in SomeDocs :
          Enter(bufnr, doc) /\ Len(sources') <= MaxTypeRequests
    \/ \E id \in DOMAIN requests : \E in \in SettleInputs(id) :
          Settle(id, in.outcome, in.position, in.changed, in.blank)
    \/ \E id \in DOMAIN requests : ApplyDone(id)

SpecType == InitType /\ [][NextType]_vars

\* the buffer and the character of a TextChangedI that the claim is about
OnTypeReady(doc, pre) ==
    /\ preferences.formatOnType
    /\ doc.exists /\ doc.attached /\ ~doc.isCommandLine
    /\ ~doc.session
    /\ doc.provider
    /\ pre # NoChar /\ ~isWord(pre)

\* what TextChangedI(doc, pre) does now: one on-type request for pre and the
\* keystroke consumed (so that a further TextChangedI makes no request) when
\* a keystroke is recorded and is at most DebounceMs old, no request otherwise
Debounced(doc, pre) ==
    LET r == textChangedI(Core, preferences, lastInsert, now, doc, pre)
        n == Len(sources)
    IN  IF lastInsert # 0 /\ now - lastInsert <= DebounceMs
        THEN /\ Len(r.core.sources) = n + 1
             /\ r.core.requests[n + 1].caller = "tryFormatOnType"
             /\ r.core.requests[n + 1].ch = pre
             /\ r.lastInsert = 0
             /\ \A doc2 \in DocInputs, pre2 \in Chars \cup {NoChar} :
                   Len(textChangedI(r.core, preferences, r.lastInsert, now,
                                    doc2, pre2).core.sources) = n + 1
        ELSE Len(r.core.sources) = n

\* C6 as stated: with formatOnType enabled, an attached buffer that is not
\* a command line, no snippet session and an on-type provider, a
\* TextChangedI with a non-word character makes exactly one on-type request
\* when a keystroke was recorded at most 300 ms before, and none otherwise.
C6_DebounceAnyFiletype ==
    \A doc \in DocInputs, pre \in Chars \cup {NoChar} :
        OnTypeReady(doc, pre) => Debounced(doc, pre)

\* C6 amended: the same, for a buffer whose filetype formatOnTypeFiletypes
\* allows (the list is empty or holds the filetype).
C6_Debounce ==
    \A doc \in DocInputs, pre \in Chars \cup {NoChar} :
        (/\ OnTypeReady(doc, pre)
         /\ (preferences.formatOnTypeFiletypes = {}
             \/ doc.filetype \in preferences.formatOnTypeFiletypes)) =>
            Debounced(doc, pre)

\* a TextChangedI with ";" made a request and consumed the keystroke, under
\* a filetype list
C6_Witness ==
    /\ preferences.formatOnTypeFiletypes # {}
    /\ lastInsert = 0
    /\ \E id \in DOMAIN requests : requests[id].st = "pending" /\ requests[id].ch = ";"

\* C7: no on-type request is made for an empty or word trigger character,
\* nor when formatOnType is disabled, by tryFormatOnType and by the
\* handlers of TextChangedI, Enter and CursorMoved, for any buffer.
C7_NoOnTypeForWordOrDisabled ==
    \A doc \in DocInputs, ch \in Chars \cup {NoChar}, bufnr \in Bufnrs, il \in BOOLEAN :
        /\ (ch = NoChar \/ isWord(ch) \/ ~preferences.formatOnType) =>
              /\ tryFormatOnType(Core, preferences, ch, doc, il) = Core
              /\ Len(textChangedI(Core, preferences, lastInsert, now, doc, ch).core.sources)
                    = Len(sources)
        /\ ~preferences.formatOnType =>
              /\ tryFormatOnType(Core, preferences, "\n", doc, FALSE) = Core
              /\ Len(cursorMoved(Core, preferences, leaveBufnr, bufnr, doc).core.sources)
                    = Len(sources)

\* formatOnType is disabled while a keystroke is recorded and an insert-leave
\* format is due
C7_Witness ==
    ~preferences.formatOnType /\ lastInsert # 0 /\ leaveBufnr # 0

\* C18: a CursorMoved delivered while the pending-leave marker is set
\* clears the marker, in the buffer of the marker (where it starts the
\* insert-leave format) and in any other buffer; and once the marker is
\* cleared a further CursorMoved starts no request.
C18_LeaveMarkerCleared ==
    \A bufnr \in Bufnrs, doc \in DocInputs :
        leaveBufnr # 0 =>
            LET r == cursorMovedEvent(Core, disposables, preferences, leaveBufnr,
                                      bufnr, doc)
            IN  /\ r.leaveBufnr = 0
                /\ \A bufnr2 \in Bufnrs, doc2 \in DocInputs :
                      Len(cursorMovedEvent(r.core, disposables, preferences,
                                           r.leaveBufnr, bufnr2, doc2).core.sources)
                         = Len(r.core.sources)

\* C19: an insert-leave format on a blank line asks no provider, applies no
\* edit, shows no error and logs no warning, and from the CursorMoved that
\* starts it to its end it leaves the slot, the sources and the status item
\* as the cancelling handler of that event left them.
C19_BlankLineSilent ==
    /\ \A id \in DOMAIN requests : \A in \in AllInputs :
          (InFlight(id) /\ requests[id].insertLeave /\ in.blank) =>
              LET r == settle(Core, id, in.outcome, in.position, in.changed, in.blank)
              IN  ~r.asked /\ ~r.applied /\ ~r.error /\ ~r.warn
    /\ \A doc \in DocInputs :
          leaveBufnr # 0 =>
              LET S0 == cancelOnEvent(Core)
                  S1 == cursorMovedLeave(S0, preferences, leaveBufnr, leaveBufnr, doc).core
                  id == Len(S1.sources)
              IN  Len(S1.sources) > Len(sources) =>
                      LET r == settle(S1, id, "absent", [line |-> 0, character |-> 0],
                                      <<>>, TRUE)
                      IN  /\ r.core.requestTokenSource = S0.requestTokenSource
                          /\ r.core.requestStatusItem = S0.requestStatusItem
                          /\ Len(r.core.sources) = Len(S0.sources)

----------------------------------------------------------------------------
(* Format on save *)

SavePreferences ==
    {p \in PreferenceSet : /\ ~p.formatOnType /\ ~p.formatOnInsertLeave
                           /\ p.formatOnTypeFiletypes = {} /\ ~p.bracketEnterImprove}

InitSave == Constructed /\ preferences \in SavePreferences /\ editor = NoEditor

NextSave ==
    \/ \E p \in SavePreferences : loadPreferences(p)
    \/ \E d \in {SaveTimeoutMs \div 2, SaveTimeoutMs \div 2 + 1} :
          now + d <= MaxSaveNow /\ Tick(d)
    \/ \E languageId \in Filetypes, hasFormatProvider \in BOOLEAN :
          WillSave(languageId, hasFormatProvider) /\ Len(saves') <= MaxSaves
    \/ \E i \in DOMAIN saves : SaveRequest(i)
    \/ \E i \in DOMAIN saves : SaveTimeout(i)
    \/ \E i \in DOMAIN saves, outcome \in Outcomes : SaveSettle(i, outcome)

SpecSave == InitSave /\ [][NextSave]_vars

\* C8: a save-format provider call that settled SaveTimeoutMs or more after
\* it was made had its token cancelled by the timer, and willSaveWaitUntil
\* resolved with no edits.
C8_TimeoutNoEdits ==
    \A i \in DOMAIN saves :
        (saves[i].st = "done" /\ saves[i].late) =>
            (saves[i].cancelled /\ saves[i].result # "edits")

----------------------------------------------------------------------------
(* Disposal of the handler: the commands and the events of the insert-leave *)
(* format around a call of dispose().                                       *)

MaxDisposeRequests == 2     \* requests made in SpecDispose

DisposePreferences ==
    {p \in PreferenceSet : /\ p.formatOnType /\ p.formatOnInsertLeave
                           /\ p.formatOnTypeFiletypes = {}
                           /\ p.formatOnSaveFiletypes = {}
                           /\ ~p.bracketEnterImprove}

InitDispose == Constructed /\ preferences \in DisposePreferences /\ editor = NoEditor

NextDispose ==
    \/ Dispose
    \/ \E bufnr \in Bufnrs : InsertLeave(bufnr)
    \/ \E bufnr \in Bufnrs, doc \in SomeDocs :
          CursorMoved(bufnr, doc) /\ Len(sources') <= MaxDisposeRequests
    \/ \E e \in {"CursorMovedI", "InsertEnter", "TextChangedP", "TextChanged"} : CancelEvent(e)
    \/ \E doc \in CommandDocs :
          DocumentFormat(doc) /\ Len(sources') <= MaxDisposeRequests
    \/ \E id \in DOMAIN requests : \E in \in SettleInputs(id) :
          Settle(id, in.outcome, in.position, in.changed, in.blank)
    \/ \E id \in DOMAIN requests : ApplyDone(id)

SpecDispose == InitDispose /\ [][NextDispose]_vars

\* C11: when dispose() returns, every request that was in flight has its
\* token cancelled and its source disposed, and a CursorMoved event delivered
\* afterwards starts no request and changes nothing of the handler (the
\* slot, the sources, the status item, the pending-leave marker).
C11_DisposeReleasesAll ==
    LET d == handlerDispose(Core, disposables)
    IN  /\ \A id \in DOMAIN requests :
              InFlight(id) => /\ d.core.sources[id].cancelled
                              /\ d.core.sources[id].disposed = 1
        /\ \A bufnr \in Bufnrs, doc \in DocInputs :
              LET r == cursorMovedEvent(d.core, d.disposables, preferences,
                                        leaveBufnr, bufnr, doc)
              IN  r.core = d.core /\ r.leaveBufnr = leaveBufnr

----------------------------------------------------------------------------
(* The cursor after an on-type format: the on-type requests of Enter and of *)
(* the insert-leave format, with every position and displacement.           *)

MaxCursorRequests == 1      \* requests made in SpecCursor

CursorPreferences ==
    {p \in PreferenceSet : /\ p.formatOnType /\ p.formatOnInsertLeave
                           /\ p.formatOnTypeFiletypes = {}
                           /\ p.formatOnSaveFiletypes = {}
                           /\ ~p.bracketEnterImprove}

\* The inputs of a continuation, with every position and displacement
CursorInputs(id) ==
    {in \in [outcome : Outcomes, position : Positions, changed : Changes,
             blank : BOOLEAN] :
        /\ in.changed # <<>> =>
              (in.outcome = "edits" /\ requests[id].caller = "tryFormatOnType")
        /\ in.blank => requests[id].insertLeave}

InitCursor == Constructed /\ preferences \in CursorPreferences /\ editor = NoEditor

NextCursor ==
    \/ \E bufnr \in Bufnrs, doc \in SomeDocs :
          Enter(bufnr, doc) /\ Len(sources') <= MaxCursorRequests
    \/ \E bufnr \in Bufnrs : InsertLeave(bufnr)
    \/ \E bufnr \in Bufnrs, doc \in SomeDocs :
          CursorMoved(bufnr, doc) /\ Len(sources') <= MaxCursorRequests
    \/ \E id \in DOMAIN requests : \E in \in CursorInputs(id) :
          Settle(id, in.outcome, in.position, in.changed, in.blank)
    \/ \E id \in DOMAIN requests : ApplyDone(id)

SpecCursor == InitCursor /\ [][NextCursor]_vars

\* C13: an on-type request that is not cancelled and whose provider answers
\* with non-empty edits applies them first (doc.applyEdits is awaited, with
\* the position P and the displacement D kept), and when applyEdits has
\* resolved the cursor is moved to P + D, componentwise, if a displacement
\* was computed, and not moved if none was.
C13_CursorMovesToPPlusD ==
    /\ \A id \in DOMAIN requests : \A in \in CursorInputs(id) :
          (/\ InFlight(id) /\ ~sources[id].cancelled
           /\ requests[id].caller = "tryFormatOnType"
           /\ in.outcome = "edits" /\ ~in.blank) =>
              LET r == settle(Core, id, in.outcome, in.position, in.changed, in.blank)
              IN  /\ r.applied
                  /\ r.core.requests[id].st = "applying"
                  /\ r.core.requests[id].position = <<in.position>>
                  /\ r.core.requests[id].changed = in.changed
    /\ \A id \in DOMAIN requests :
          requests[id].st = "applying" =>
              LET P == requests[id].position[1]
                  r == tryFormatOnTypeMove(Core, id)
              IN  IF requests[id].changed = <<>>
                  THEN ~r.moved
                  ELSE LET D == requests[id].changed[1]
                       IN  /\ r.moved
                           /\ r.to.line = P.line + D.line
                           /\ r.to.character = P.character + D.character

\* edits were applied for a request with a position other than the origin
\* and a displacement in both components, and the cursor move is due
C13_Witness ==
    \E id \in DOMAIN requests :
        /\ requests[id].st = "applying"
        /\ requests[id].position = <<[line |-> 1, character |-> 1]>>
        /\ requests[id].changed = <<[line |-> 1, character |-> -1]>>

----------------------------------------------------------------------------
(* The bracket helper on every pair of lines: Enter with formatOnType off,  *)
(* so that the helper follows at once.                                      *)

MaxIndent == 1      \* spaces of indentation of a line
MaxEnters == 1      \* Enter handlers in progress together

Indents == {repeat(" ", n) : n \in 0..MaxIndent} \cup {<<"\t">>}
PreBodies ==
    {<<>>, <<"{">>, <<"<">>, <<">">>, <<"(">>, <<"[">>, <<"}">>, <<"a">>, <<"{", " ">>}
CurrBodies ==
    {<<>>, <<"}">>, <<">">>, <<"<">>, <<")">>, <<"]">>, <<"a">>, <<"}", " ">>}
FormatOptions ==
    {[insertSpaces |-> TRUE, tabSize |-> 1], [insertSpaces |-> TRUE, tabSize |-> 2],
     [insertSpaces |-> FALSE, tabSize |-> 2]}

BracketEditors ==
    {NoEditor} \cup
    {Editor(TRUE, ft, line, i1 \o b1, i2 \o b2, o.insertSpaces, o.tabSize) :
        ft \in Filetypes, line \in {1, 2}, i1 \in Indents, b1 \in PreBodies,
        i2 \in Indents, b2 \in CurrBodies, o \in FormatOptions}

BracketPreferences ==
    {p \in PreferenceSet : /\ ~p.formatOnType /\ ~p.formatOnInsertLeave
                           /\ p.formatOnTypeFiletypes = {}
                           /\ p.formatOnSaveFiletypes = {}
                           /\ p.bracketEnterImprove}

InitBracket ==
    Constructed /\ preferences \in BracketPreferences /\ editor \in BracketEditors

NextBracket ==
    \/ \E bufnr \in Bufnrs, doc \in SomeDocs :
          Enter(bufnr, doc) /\ Len(enters') <= MaxEnters
    \/ \E i \in DOMAIN enters : BracketEnter(i)

SpecBracket == InitBracket /\ [][NextBracket]_vars

\* the leading blanks of a line, its first and its last non-blank character
\* ("" when it has none)
Blank(c) == c = " " \/ c = "\t"
IndentOf(s) ==
    LET k == CHOOSE k \in 0..Len(s) :
                 /\ \A i \in 1..k : Blank(s[i])
                 /\ k < Len(s) => ~Blank(s[k + 1])
    IN  SubSeq(s, 1, k)
FirstNonBlank(s) ==
    IF \A i \in 1..Len(s) : Blank(s[i]) THEN ""
    ELSE s[Len(IndentOf(s)) + 1]
LastNonBlank(s) ==
    IF \A i \in 1..Len(s) : Blank(s[i]) THEN ""
    ELSE s[CHOOSE k \in 1..Len(s) : ~Blank(s[k]) /\ \A i \in (k + 1)..Len(s) : Blank(s[i])]

\* the opening delimiters and the closing delimiter of each
Closing(c) ==
    CASE c = "<" -> ">" [] c = "{" -> "}" [] c = "[" -> "]" [] c = "(" -> ")"
      [] OTHER -> "none"

IndentUnit(ed) ==
    IF ed.insertSpaces THEN [i \in 1..ed.tabSize |-> " "] ELSE <<"\t">>

\* what the claim asks of the batches applied and of the cursor move
BracketImproved(ed, applied, moved, to) ==
    LET insert == [range |-> [start |-> [line |-> ed.line - 1, character |-> Len(ed.pre)],
                              end |-> [line |-> ed.line - 1, character |-> Len(ed.pre)]],
                   newText |-> <<"\n">> \o IndentOf(ed.pre) \o IndentUnit(ed)]
        indent == [range |-> [start |-> [line |-> ed.line, character |-> 0],
                              end |-> [line |-> ed.line,
                                       character |-> Len(IndentOf(ed.curr))]],
                   newText |-> IndentOf(ed.pre)]
    IN  /\ Len(applied) = 1
        /\ applied[1] = IF IndentOf(ed.pre) # IndentOf(ed.curr)
                        THEN <<indent, insert>>
                        ELSE <<insert>>
        /\ moved
        /\ to = [line |-> ed.line,
                 character |-> Len(IndentOf(ed.pre)) + Len(IndentUnit(ed))]

\* the case of C14: the previous line ends in an opening delimiter, the
\* current line starts, after blanks, with its closing delimiter, and the
\* filetype is not vim
BetweenPair(ed) ==
    /\ ed.exists /\ ed.filetype # "vim"
    /\ ed.pre # <<>> /\ Closing(ed.pre[Len(ed.pre)]) # "none"
    /\ FirstNonBlank(ed.curr) = Closing(ed.pre[Len(ed.pre)])

\* C14: between an opening delimiter and its closing delimiter, in a
\* filetype other than vim, the helper applies one batch: the insertion at
\* the end of the previous line of a newline, the previous line's
\* indentation and one indent unit (tabSize spaces, or a tab), preceded by
\* the rewrite of the current line's indentation to the previous line's
\* when the two differ; and it moves the cursor to the current line number,
\* at the column that is the length of the previous indentation plus that of
\* the indent unit.
C14_BracketEnterIndents ==
    BetweenPair(editor) =>
        /\ LET r == bracketEnter(editor)
           IN  BracketImproved(editor, r.applied, r.moved, r.to)
        /\ editor.ran =>
              BracketImproved(editor, editor.applied, editor.moved, editor.to)

\* the helper ran between a pair, with a tab for indent unit, on a current
\* line whose indentation differs from the previous line's
C14_Witness ==
    /\ editor.ran /\ BetweenPair(editor)
    /\ ~editor.insertSpaces
    /\ IndentOf(editor.pre) = <<" ">> /\ IndentOf(editor.curr) = <<>>
    /\ Len(editor.applied) = 1 /\ Len(editor.applied[1]) = 2

----------------------------------------------------------------------------
(* The Enter handler with formatOnType on: the on-type format first, the    *)
(* bracket helper after it.                                                 *)

MaxEnterRequests == 1       \* requests made in SpecEnter

EnterEditors ==
    {NoEditor} \cup
    {Editor(TRUE, "ts", 1, b1, i2 \o b2, TRUE, 2) :
        b1 \in PreBodies, i2 \in {<<>>, <<" ">>}, b2 \in CurrBodies}

EnterPreferences ==
    {p \in PreferenceSet : /\ p.formatOnType /\ ~p.formatOnInsertLeave
                           /\ p.formatOnTypeFiletypes = {}
                           /\ p.formatOnSaveFiletypes = {}}

InitEnter ==
    Constructed /\ preferences \in EnterPreferences /\ editor \in EnterEditors

NextEnter ==
    \/ \E p \in EnterPreferences : loadPreferences(p)
    \/ \E doc \in SomeDocs :
          /\ Enter(1, doc)
          /\ Len(sources') <= MaxEnterRequests
          /\ Len(enters') <= MaxEnters
    \/ \E e \in {"CursorMovedI", "InsertEnter", "TextChangedP", "TextChanged"} : CancelEvent(e)
    \/ \E id \in DOMAIN requests : \E in \in SettleInputs(id) :
          Settle(id, in.outcome, in.position, in.changed, in.blank)
    \/ \E id \in DOMAIN requests : ApplyDone(id)
    \/ \E i \in DOMAIN enters : BracketEnter(i)

SpecEnter == InitEnter /\ [][NextEnter]_vars

\* the step in which the Enter handler i runs the helper and returns
HelperRuns(i) ==
    /\ i \in DOMAIN enters
    /\ enters' = SubSeq(enters, 1, i - 1) \o SubSeq(enters, i + 1, Len(enters))
    /\ editor'.ran

\* the on-type format that the Enter handler i awaits has finished
FormatFinished(i) ==
    IF enters[i].req = 0 THEN TRUE ELSE requests[enters[i].req].st = "done"

Paired(c) == IF c = ">" THEN "<" ELSE Closing(c)

----------------------------------------------------------------------------
(* Format on save together with the explicit commands.                      *)

MaxMixedRequests == 2       \* requests made in SpecMixed

MixedPreferences ==
    {p \in PreferenceSet : /\ ~p.formatOnType /\ ~p.formatOnInsertLeave
                           /\ p.formatOnTypeFiletypes = {}
                           /\ p.formatOnSaveFiletypes = {"*"}
                           /\ ~p.bracketEnterImprove}

InitMixed == Constructed /\ preferences \in MixedPreferences /\ editor = NoEditor

NextMixed ==
    \/ \E languageId \in Filetypes, hasFormatProvider \in BOOLEAN :
          WillSave(languageId, hasFormatProvider) /\ Len(saves') <= MaxSaves
    \/ \E i \in DOMAIN saves : SaveRequest(i)
    \/ \E i \in DOMAIN saves, outcome \in Outcomes : SaveSettle(i, outcome)
    \/ \E doc \in CommandDocs :
          DocumentFormat(doc) /\ Len(sources') <= MaxMixedRequests
    \/ \E doc \in CommandDocs, in \in RangeInputs :
          DocumentRangeFormat(doc, in) /\ Len(sources') <= MaxMixedRequests
    \/ \E id \in DOMAIN requests : \E in \in SettleInputs(id) :
          Settle(id, in.outcome, in.position, in.changed, in.blank)

SpecMixed == InitMixed /\ [][NextMixed]_vars

\* C15: a save-time provider call and a provider call made through
\* withRequestToken are never pending together with neither token
\* cancelled: whichever of the two requests started later has cancelled the
\* other.
C15_OneRequestOfAnyKind ==
    \A i \in DOMAIN saves, id \in DOMAIN requests :
        (saves[i].st = "pending" /\ InFlight(id)) =>
            (saves[i].cancelled \/ sources[id].cancelled)

====
